---- MODULE Spec2Model ----
(***************************************************************************)
(* Model of src/main.py: one run of the Streamlit script main(), i.e. the *)
(* construction of ColdEmailGenerator (API-key resolution), the rendering *)
(* of the input widgets, the validation behind the "Generate Cold Email"  *)
(* button, PDF text extraction, the remote completion call and the        *)
(* display of the result.                                                 *)
(*                                                                         *)
(* Python strings are sequences of code points.  User-supplied strings    *)
(* are drawn from the code points 1..MaxChar; the literals of the source  *)
(* are written with their ASCII code points.  Python's None is the value  *)
(* None below, which differs from every string the model builds.          *)
(***************************************************************************)
EXTENDS Integers, Sequences, FiniteSets, TLC

MaxChar == 2
MaxLen == 1
MaxPages == 2
MaxChoices == 2

None == <<0>>

RECURSIVE StrOfLen(_)
StrOfLen(n) ==
    IF n = 0 THEN {<<>>}
    ELSE {Append(s, c) : s \in StrOfLen(n - 1), c \in 1..MaxChar}

Str == UNION {StrOfLen(n) : n \in 0..MaxLen}

OptStr == Str \cup {None}

\* Python truthiness of a value that is None or a str
Truthy(v) == v # None /\ v # <<>>

\* str(v) as applied by an f-string replacement field
NoneText == <<78, 111, 110, 101>>
PyFormat(v) == IF v = None THEN NoneText ELSE v

----------------------------------------------------------------------------
\* Exceptions: the class and str(e).  KeyboardInterrupt, SystemExit and
\* GeneratorExit derive from BaseException only, so "except Exception" lets
\* them through.

Exc(type, text) == [type |-> type, text |-> text]
NoExc == Exc("", "")
BaseOnlyTypes == {"KeyboardInterrupt", "SystemExit", "GeneratorExit"}

\* isinstance(e, Exception)
IsException(e) == e.type \notin BaseOnlyTypes

----------------------------------------------------------------------------
\* User-visible messages (st.warning / st.error)

Msg(level, text, detail) == [level |-> level, text |-> text, detail |-> detail]

WARN_KEY_NOT_FOUND == Msg("warning", "Groq API Key not found. Please enter your API key.", "")
ERR_NO_KEY == Msg("error", "No API key provided. Cannot initialize Groq client.", "")
ERR_CLIENT == Msg("error", "Groq client not initialized. Cannot generate email.", "")
WARN_RESUME == Msg("warning", "Please upload your resume", "")
WARN_JD == Msg("warning", "Please paste the job description", "")
ErrPdf(e) == Msg("error", "Error reading PDF: ", e)
ErrGenerate(e) == Msg("error", "Error generating email: ", e)

----------------------------------------------------------------------------
\* ColdEmailGenerator.__init__

\* plausible slip: the environment variable is looked up before the argument
init_EnvFirst(api_key, env, secret, typed) ==
    LET first == IF Truthy(env) THEN env ELSE api_key IN
    IF Truthy(first)
    THEN [client |-> first, messages |-> <<>>, prompted |-> FALSE]
    ELSE LET k1 == IF secret # None THEN secret ELSE <<>>
             ask == ~Truthy(k1)
             k2 == IF ask THEN typed ELSE k1
         IN [client |-> IF Truthy(k2) THEN k2 ELSE None,
             messages |-> (IF ask THEN <<WARN_KEY_NOT_FOUND>> ELSE <<>>)
                          \o (IF Truthy(k2) THEN <<>> ELSE <<ERR_NO_KEY>>),
             prompted |-> ask]

\* api_key: the argument; env: os.getenv('GROQ_API_KEY') (None when unset);
\* secret: st.secrets.GROQ_API_KEY (None when hasattr is False);
\* typed: what st.text_input returns when the prompt is rendered.
\* The client is identified with the key it is bound to; None = no client.
ColdEmailGenerator_init(api_key, env, secret, typed) ==
    IF Truthy(api_key)
    THEN [client |-> api_key, messages |-> <<>>, prompted |-> FALSE]
    ELSE LET k0 == env
             k1 == IF ~Truthy(k0) /\ secret # None THEN secret ELSE k0
             ask == ~Truthy(k1)
             k2 == IF ask THEN typed ELSE k1
         IN [client |-> IF Truthy(k2) THEN k2 ELSE None,
             messages |-> (IF ask THEN <<WARN_KEY_NOT_FOUND>> ELSE <<>>)
                          \o (IF Truthy(k2) THEN <<>> ELSE <<ERR_NO_KEY>>),
             prompted |-> ask]

----------------------------------------------------------------------------
\* ColdEmailGenerator.extract_text_from_pdf

\* what PdfReader(...) or page.extract_text() may raise
PdfExceptions == {Exc("PdfReadError", "EOF marker not found"), Exc("KeyboardInterrupt", "")}

\* A page either raises in extract_text() or yields a text.
OkPage(t) == [raises |-> FALSE, exc |-> NoExc, text |-> t]
BadPage(e) == [raises |-> TRUE, exc |-> e, text |-> <<>>]
Pages == {OkPage(t) : t \in Str} \cup {BadPage(e) : e \in PdfExceptions}

RECURSIVE PageLists(_)
PageLists(n) ==
    IF n = 0 THEN {<<>>}
    ELSE {Append(s, p) : s \in PageLists(n - 1), p \in Pages}

\* exc: what PdfReader(pdf_file) raises when the file does not open
NoFile == [present |-> FALSE, opens |-> FALSE, exc |-> NoExc, pages |-> <<>>]
CorruptPdf(e) == [present |-> TRUE, opens |-> FALSE, exc |-> e, pages |-> <<>>]
Pdfs == {CorruptPdf(e) : e \in PdfExceptions} \cup
        {[present |-> TRUE, opens |-> TRUE, exc |-> NoExc, pages |-> ps] :
            ps \in UNION {PageLists(n) : n \in 0..MaxPages}}

\* plausible slip: each page is put in front of the text gathered so far
RECURSIVE extract_pages_Prepend(_, _, _)
extract_pages_Prepend(pages, i, text) ==
    IF i > Len(pages) THEN [raised |-> FALSE, exc |-> NoExc, text |-> text]
    ELSE IF pages[i].raises THEN [raised |-> TRUE, exc |-> pages[i].exc, text |-> text]
    ELSE extract_pages_Prepend(pages, i + 1, pages[i].text \o text)

\* the loop "for page in pdf_reader.pages: text += page.extract_text()"
RECURSIVE extract_pages(_, _, _)
extract_pages(pages, i, text) ==
    IF i > Len(pages) THEN [raised |-> FALSE, exc |-> NoExc, text |-> text]
    ELSE IF pages[i].raises THEN [raised |-> TRUE, exc |-> pages[i].exc, text |-> text]
    ELSE extract_pages(pages, i + 1, text \o pages[i].text)

\* an exception leaves the function: nothing is returned, nothing is shown
Propagate == [ret |-> None, messages |-> <<>>, raises |-> TRUE]

\* the except clause of extract_text_from_pdf
except_extract(e) == [ret |-> None, messages |-> <<ErrPdf(e.text)>>, raises |-> FALSE]

\* plausible slip: the handler hands back what was gathered before the raise
extract_text_from_pdf_Partial(pdf) ==
    IF ~pdf.opens
    THEN IF IsException(pdf.exc) THEN except_extract(pdf.exc) ELSE Propagate
    ELSE LET r == extract_pages(pdf.pages, 1, <<>>) IN
         IF r.raised
         THEN IF IsException(r.exc)
              THEN [ret |-> r.text, messages |-> <<ErrPdf(r.exc.text)>>, raises |-> FALSE]
              ELSE Propagate
         ELSE [ret |-> r.text, messages |-> <<>>, raises |-> FALSE]

\* ret: the returned value; messages: what st.error showed;
\* raises: an exception leaves the function
extract_text_from_pdf(pdf) ==
    IF ~pdf.opens
    THEN IF IsException(pdf.exc) THEN except_extract(pdf.exc) ELSE Propagate
    ELSE LET r == extract_pages(pdf.pages, 1, <<>>) IN
         IF r.raised
         THEN IF IsException(r.exc) THEN except_extract(r.exc) ELSE Propagate
         ELSE [ret |-> r.text, messages |-> <<>>, raises |-> FALSE]

----------------------------------------------------------------------------
\* ColdEmailGenerator.generate_cold_email

SYSTEM_PROMPT == "You are a professional email writer specializing in cold outreach for job applications. \n                        Create a personalized, concise, and compelling cold email that:\n                        1. Demonstrates knowledge of the company and role\n                        2. Highlights relevant skills from the resume\n                        3. Shows genuine interest in the position\n                        4. Maintains a professional yet warm tone\n                        5. Keeps the email to 3-4 paragraphs max"
MODEL_ID == "llama3-70b-8192"
MAX_TOKENS == 500
\* temperature=0.7, kept as an exact fraction
TEMPERATURE == [num |-> 7, den |-> 10]

\* "Job Description:\n"
JD_HEADER == <<74, 111, 98, 32, 68, 101, 115, 99, 114, 105, 112, 116, 105, 111, 110, 58, 10>>
\* "\n\nMy Resume:\n"
RESUME_HEADER == <<10, 10, 77, 121, 32, 82, 101, 115, 117, 109, 101, 58, 10>>

\* plausible slip: the two replacement fields are swapped
UserContent_Swapped(job_description, resume_text) ==
    JD_HEADER \o PyFormat(resume_text) \o RESUME_HEADER \o PyFormat(job_description)

\* f"Job Description:\n{job_description}\n\nMy Resume:\n{resume_text}"
UserContent(job_description, resume_text) ==
    JD_HEADER \o PyFormat(job_description) \o RESUME_HEADER \o PyFormat(resume_text)

\* the keyword arguments of self.client.chat.completions.create
Request(job_description, resume_text) ==
    [messages |-> << [role |-> "system", content |-> SYSTEM_PROMPT],
                     [role |-> "user", content |-> UserContent(job_description, resume_text)] >>,
     model |-> MODEL_ID,
     max_tokens |-> MAX_TOKENS,
     temperature |-> TEMPERATURE]

\* What the remote end does with one request: it raises, or it answers with a
\* list of choices, each the message content (None or a str).
RemoteExceptions == {Exc("AuthenticationError", "Invalid API Key"),
                     Exc("APITimeoutError", "Request timed out."),
                     Exc("KeyboardInterrupt", "")}

\* choices[0] on an empty list
INDEX_ERROR == Exc("IndexError", "list index out of range")

RECURSIVE ChoiceLists(_)
ChoiceLists(n) ==
    IF n = 0 THEN {<<>>}
    ELSE {Append(s, c) : s \in ChoiceLists(n - 1), c \in OptStr}

NoResponse == [raises |-> FALSE, exc |-> NoExc, choices |-> <<>>]
Responses == {[raises |-> TRUE, exc |-> e, choices |-> <<>>] : e \in RemoteExceptions} \cup
             {[raises |-> FALSE, exc |-> NoExc, choices |-> cs] :
                 cs \in UNION {ChoiceLists(n) : n \in 0..MaxChoices}}

\* plausible slip: the request is sent again after a failure
completions_create_Retry(job_description, resume_text, response) ==
    IF response.raises
    THEN <<Request(job_description, resume_text), Request(job_description, resume_text)>>
    ELSE <<Request(job_description, resume_text)>>

\* the requests sent by the one call of completions.create
completions_create(job_description, resume_text, response) ==
    <<Request(job_description, resume_text)>>

\* plausible slip: the last choice is read instead of the first
first_choice_content_Last(choices) == choices[Len(choices)]

\* chat_completion.choices[0].message.content
first_choice_content(choices) == choices[1]

\* plausible slip: the handler reports the error and re-raises
except_generate_Reraise(e) ==
    [ret |-> None, messages |-> <<ErrGenerate(e.text)>>, raises |-> TRUE]

\* the except clause of generate_cold_email
except_generate(e) ==
    [ret |-> None, messages |-> <<ErrGenerate(e.text)>>, raises |-> FALSE]

\* plausible slip: the guard on self.client is missing
generate_cold_email_NoGuard(client, job_description, resume_text, response) ==
    LET sent == completions_create(job_description, resume_text, response) IN
    IF response.raises
    THEN [requests |-> sent] @@
         (IF IsException(response.exc) THEN except_generate(response.exc) ELSE Propagate)
    ELSE IF Len(response.choices) = 0
    THEN [requests |-> sent] @@ except_generate(INDEX_ERROR)
    ELSE [ret |-> first_choice_content(response.choices),
          messages |-> <<>>, raises |-> FALSE, requests |-> sent]

\* ret: the returned value; messages: what st.error showed; raises: an
\* exception leaves the function; requests: the remote requests issued
generate_cold_email(client, job_description, resume_text, response) ==
    IF ~Truthy(client)
    THEN [ret |-> None, messages |-> <<ERR_CLIENT>>, raises |-> FALSE, requests |-> <<>>]
    ELSE LET sent == completions_create(job_description, resume_text, response) IN
         IF response.raises
         THEN [requests |-> sent] @@
              (IF IsException(response.exc) THEN except_generate(response.exc) ELSE Propagate)
         ELSE IF Len(response.choices) = 0
         THEN [requests |-> sent] @@ except_generate(INDEX_ERROR)
         ELSE [ret |-> first_choice_content(response.choices),
               messages |-> <<>>, raises |-> FALSE, requests |-> sent]

----------------------------------------------------------------------------
\* main

\* plausible slip: the job description is not validated
validate_inputs_NoJdCheck(uploaded, jd) ==
    IF ~uploaded.present THEN [pc |-> "ret_no_resume", messages |-> <<WARN_RESUME>>]
    ELSE [pc |-> "validated", messages |-> <<>>]

\* the two checks under "if st.button(...)": where main goes and what it shows
validate_inputs(uploaded, jd) ==
    IF ~uploaded.present THEN [pc |-> "ret_no_resume", messages |-> <<WARN_RESUME>>]
    ELSE IF ~Truthy(jd) THEN [pc |-> "ret_no_jd", messages |-> <<WARN_JD>>]
    ELSE [pc |-> "validated", messages |-> <<>>]

VARIABLES
    pc,               \* position of the run of main; "raised_in_..." when an
                      \* exception left main from that call
    sources,          \* what __init__ read: argument, environment, secret, prompt
    client,           \* email_generator.client: None or the key it is bound to
    prompted,         \* the interactive key prompt was rendered
    messages,         \* st.warning / st.error calls so far, in order
    uploaded_resume,  \* st.file_uploader result
    job_description,  \* st.text_area result
    clicked,          \* st.button("Generate Cold Email") result
    resume_text,      \* local of main
    response,         \* what the remote end did with the request
    calls,            \* remote completion requests issued so far, in order
    generated_email,  \* local of main
    written           \* st.write calls so far, in order

vars == <<pc, sources, client, prompted, messages, uploaded_resume, job_description,
          clicked, resume_text, response, calls, generated_email, written>>

NoSources == [api_key |-> None, env |-> None, secret |-> None, typed |-> <<>>]

Init ==
    /\ pc = "start"
    /\ sources = NoSources
    /\ client = None
    /\ prompted = FALSE
    /\ messages = <<>>
    /\ uploaded_resume = NoFile
    /\ job_description = <<>>
    /\ clicked = FALSE
    /\ resume_text = None
    /\ response = NoResponse
    /\ calls = <<>>
    /\ generated_email = None
    /\ written = <<>>

\* email_generator = ColdEmailGenerator(api_key=manual_api_key)
Construct ==
    /\ pc = "start"
    /\ \E api_key \in OptStr, env \in OptStr, secret \in OptStr, typed \in Str :
          LET r == ColdEmailGenerator_init(api_key, env, secret, typed) IN
          /\ sources' = [api_key |-> api_key, env |-> env, secret |-> secret, typed |-> typed]
          /\ client' = r.client
          /\ prompted' = r.prompted
          /\ messages' = messages \o r.messages
    /\ pc' = "constructed"
    /\ UNCHANGED <<uploaded_resume, job_description, clicked, resume_text, response,
                   calls, generated_email, written>>

\* The widgets are rendered and the button is read; when it was pressed the
\* inputs are validated.  The constructor's frame is gone by now.
RenderAndValidate ==
    /\ pc = "constructed"
    /\ \E up \in {NoFile} \cup Pdfs, jd \in Str, btn \in BOOLEAN :
          /\ uploaded_resume' = up
          /\ job_description' = jd
          /\ clicked' = btn
          /\ IF ~btn
             THEN pc' = "ret_idle" /\ messages' = messages
             ELSE LET v == validate_inputs(up, jd) IN
                  pc' = v.pc /\ messages' = messages \o v.messages
    /\ sources' = NoSources
    /\ UNCHANGED <<client, prompted, resume_text, response, calls, generated_email, written>>

\* resume_text = email_generator.extract_text_from_pdf(uploaded_resume)
Extract ==
    /\ pc = "validated"
    /\ LET r == extract_text_from_pdf(uploaded_resume) IN
          /\ resume_text' = r.ret
          /\ messages' = messages \o r.messages
          /\ pc' = IF r.raises THEN "raised_in_extract" ELSE "extracted"
    /\ UNCHANGED <<sources, client, prompted, uploaded_resume, job_description, clicked,
                   response, calls, generated_email, written>>

\* if resume_text: generated_email = email_generator.generate_cold_email(...)
Generate ==
    /\ pc = "extracted"
    /\ IF Truthy(resume_text)
       THEN \E resp \in (IF Truthy(client) THEN Responses ELSE {NoResponse}) :
               LET r == generate_cold_email(client, job_description, resume_text, resp) IN
               /\ response' = resp
               /\ calls' = calls \o r.requests
               /\ generated_email' = r.ret
               /\ messages' = messages \o r.messages
               /\ pc' = IF r.raises THEN "raised_in_generate" ELSE "generated"
       ELSE /\ pc' = "ret_no_text"
            /\ UNCHANGED <<response, calls, generated_email, messages>>
    /\ UNCHANGED <<sources, client, prompted, uploaded_resume, job_description, clicked,
                   resume_text, written>>

\* if generated_email: st.write(generated_email)
Display ==
    /\ pc = "generated"
    /\ IF Truthy(generated_email)
       THEN written' = Append(written, generated_email) /\ pc' = "ret_shown"
       ELSE written' = written /\ pc' = "ret_no_email"
    /\ UNCHANGED <<sources, client, prompted, messages, uploaded_resume, job_description,
                   clicked, resume_text, response, calls, generated_email>>

Next == Construct \/ RenderAndValidate \/ Extract \/ Generate \/ Display

Spec == Init /\ [][Next]_vars

----------------------------------------------------------------------------
\* Properties

AfterGenerate == pc \in {"generated", "ret_shown", "ret_no_email"}
AfterExtract == pc \in {"extracted", "ret_no_text", "raised_in_generate"} \/ AfterGenerate
ExtractRan == AfterExtract \/ pc = "raised_in_extract"
GenerateRan == AfterGenerate \/ pc = "raised_in_generate"
Shown(m) == \E i \in 1..Len(messages) : messages[i] = m
ShownText(t) == \E i \in 1..Len(messages) : messages[i].text = t

\* C1: after construction the client is bound to the first non-empty source in
\* the order argument, environment, secret, prompt, whatever the later sources
\* hold, and the prompt is rendered exactly when the first three are all empty.
C1_FirstNonEmptyWins ==
    pc = "constructed" =>
        LET s == <<sources.api_key, sources.env, sources.secret, sources.typed>> IN
        /\ \A i \in 1..4 :
              (Truthy(s[i]) /\ \A j \in 1..(i - 1) : ~Truthy(s[j])) => client = s[i]
        /\ prompted <=> \A j \in 1..3 : ~Truthy(s[j])

C1_Witness ==
    /\ pc = "constructed"
    /\ Truthy(sources.api_key) /\ Truthy(sources.env) /\ Truthy(sources.secret)
    /\ sources.api_key # sources.env
    /\ client = sources.api_key

\* C2: when all four sources are empty the constructor leaves the client None
\* (and says so), and with a None client generate_cold_email returns None,
\* shows its error and no remote request is ever issued.
C2_NoCredentialNoCall ==
    /\ (pc = "constructed" /\ ~Truthy(sources.api_key) /\ ~Truthy(sources.env)
          /\ ~Truthy(sources.secret) /\ ~Truthy(sources.typed))
       => (client = None /\ Shown(ERR_NO_KEY))
    /\ (pc # "start" /\ client = None) => calls = <<>>
    /\ (GenerateRan /\ client = None) =>
          (generated_email = None /\ Shown(ERR_CLIENT) /\ pc # "raised_in_generate")

C2_Witness ==
    /\ pc = "generated" /\ client = None /\ Truthy(resume_text)
    /\ generated_email = None /\ calls = <<>>

\* C3: a remote request has been issued only if the button was pressed, a resume
\* was uploaded and yielded a text, the job description is non-empty and the
\* client is initialized; every rejected attempt ends with no request issued.
C3_CallOnlyWhenAllPresent ==
    /\ calls # <<>> =>
          /\ clicked /\ uploaded_resume.present
          /\ resume_text # None
          /\ job_description # <<>>
          /\ client # None
    /\ pc \in {"ret_idle", "ret_no_resume", "ret_no_jd", "ret_no_text"} => calls = <<>>

C3_Witness == calls # <<>> /\ pc = "generated"

RECURSIVE TextLenBefore(_, _)
TextLenBefore(pages, i) ==
    IF i <= 1 THEN 0 ELSE TextLenBefore(pages, i - 1) + Len(pages[i - 1].text)

AllPagesExtract(pdf) == pdf.opens /\ \A i \in 1..Len(pdf.pages) : ~pdf.pages[i].raises

\* C4: when the PDF opens and no page raises, the extracted text consists of the
\* pages' texts laid end to end in page order with nothing between, before or
\* after them; it is the empty string when the PDF has no pages.
C4_ConcatInPageOrder ==
    (AfterExtract /\ AllPagesExtract(uploaded_resume)) =>
        LET ps == uploaded_resume.pages IN
        /\ resume_text # None
        /\ Len(resume_text) = TextLenBefore(ps, Len(ps) + 1)
        /\ \A i \in 1..Len(ps) :
              SubSeq(resume_text, TextLenBefore(ps, i) + 1, TextLenBefore(ps, i + 1))
                 = ps[i].text
        /\ ps = <<>> => resume_text = <<>>

C4_Witness ==
    /\ pc = "extracted" /\ AllPagesExtract(uploaded_resume)
    /\ Len(uploaded_resume.pages) >= 2
    /\ uploaded_resume.pages[1].text # <<>>
    /\ uploaded_resume.pages[2].text # <<>>
    /\ uploaded_resume.pages[1].text # uploaded_resume.pages[2].text
    /\ resume_text = uploaded_resume.pages[1].text \o uploaded_resume.pages[2].text

FirstRaisingPage(pdf) ==
    CHOOSE i \in 1..Len(pdf.pages) :
        pdf.pages[i].raises /\ \A j \in 1..(i - 1) : ~pdf.pages[j].raises

\* the exception the extraction of pdf runs into, when it runs into one
ExtractionExc(pdf) ==
    IF ~pdf.opens THEN pdf.exc ELSE pdf.pages[FirstRaisingPage(pdf)].exc

ExtractionFailed ==
    (ExtractRan => resume_text = None)
    /\ pc # "raised_in_extract"
    /\ ShownText("Error reading PDF: ")

\* C5 as stated: when opening the PDF or any page raises, whatever is raised,
\* the extraction returns None, shows the PDF error, keeps nothing of the
\* earlier pages and lets no exception out.
C5_AnyRaiseYieldsNone ==
    (ExtractRan /\ ~AllPagesExtract(uploaded_resume)) => ExtractionFailed

\* C5 amended: when opening the PDF or a page raises an exception derived from
\* Exception, the extraction returns None, shows the PDF error with str(e),
\* keeps nothing of the earlier pages and lets no exception out.
C5_ExceptionYieldsNone ==
    (ExtractRan /\ ~AllPagesExtract(uploaded_resume)
        /\ IsException(ExtractionExc(uploaded_resume)))
    => (ExtractionFailed /\ Shown(ErrPdf(ExtractionExc(uploaded_resume).text)))

C5_Witness ==
    /\ pc = "extracted" /\ uploaded_resume.opens
    /\ Len(uploaded_resume.pages) >= 2
    /\ ~uploaded_resume.pages[1].raises /\ uploaded_resume.pages[1].text # <<>>
    /\ uploaded_resume.pages[2].raises
    /\ IsException(uploaded_resume.pages[2].exc)
    /\ resume_text = None

Answered == calls # <<>> /\ ~response.raises /\ Len(response.choices) >= 1

\* C6: when the remote call returns a first choice, generate_cold_email returns
\* that choice's content as it is, None or empty included.
C6_FirstChoiceVerbatim ==
    (AfterGenerate /\ Answered) => generated_email = response.choices[1]

C6_Witness ==
    /\ pc = "generated" /\ Answered
    /\ Len(response.choices) = 2
    /\ response.choices[1] # response.choices[2]
    /\ Truthy(response.choices[1])
    /\ generated_email = response.choices[1]

RemoteFailed == response.raises \/ response.choices = <<>>

GenerationFailed ==
    /\ generated_email = None
    /\ pc # "raised_in_generate"
    /\ ShownText("Error generating email: ")

\* C7 as stated: when the remote call raises, whatever it raises, or its answer
\* has no first choice, generate_cold_email returns None and the exception does
\* not leave the function.
C7_AnyRaiseYieldsNone ==
    (GenerateRan /\ client # None /\ RemoteFailed) => GenerationFailed

\* C7 amended: when the remote call raises an exception derived from Exception,
\* or its answer has no first choice, generate_cold_email returns None and shows
\* the generation error, for every such cause, and the exception does not leave
\* the function.
C7_ExceptionYieldsNone ==
    (GenerateRan /\ client # None /\ RemoteFailed /\ IsException(response.exc))
    => GenerationFailed

C7_Witness ==
    /\ pc = "generated" /\ client # None /\ response.raises
    /\ response.exc.type = "APITimeoutError"
    /\ generated_email = None

\* C8: a run issues at most one remote request: none before generate_cold_email
\* has run, exactly one after it when the client is initialized, whether the
\* request failed or succeeded, and none when it is not.
C8_AtMostOneRequest ==
    /\ Len(calls) <= 1
    /\ ~GenerateRan => calls = <<>>
    /\ GenerateRan => Len(calls) = (IF client # None THEN 1 ELSE 0)

C8_Witness ==
    /\ pc = "ret_no_email" /\ client # None /\ response.raises /\ Len(calls) = 1

Occurs(s, t, i) == i >= 1 /\ i + Len(t) - 1 <= Len(s) /\ SubSeq(s, i, i + Len(t) - 1) = t

\* C9: every request issued carries two messages, system then user; the system
\* content is the fixed instruction; the user content holds the job description
\* and, after it, the resume text, both unchanged; the model identifier, the
\* token limit 500 and the temperature 7/10 are the same for every input.
C9_FixedRequestShape ==
    \A k \in 1..Len(calls) :
        LET rq == calls[k] IN
        /\ Len(rq.messages) = 2
        /\ rq.messages[1].role = "system" /\ rq.messages[2].role = "user"
        /\ rq.messages[1].content = SYSTEM_PROMPT
        /\ \E i, j \in 1..Len(rq.messages[2].content) :
              /\ Occurs(rq.messages[2].content, job_description, i)
              /\ Occurs(rq.messages[2].content, resume_text, j)
              /\ i + Len(job_description) <= j
        /\ rq.model = "llama3-70b-8192"
        /\ rq.max_tokens = 500
        /\ rq.temperature.num * 10 = 7 * rq.temperature.den

C9_Witness ==
    /\ Len(calls) = 1
    /\ job_description # resume_text
    /\ Len(resume_text) >= 2

GenerateActionEnded ==
    pc \in {"ret_no_resume", "ret_no_jd", "ret_no_text", "ret_no_email", "ret_shown"}

\* C10: every generate action ends either with an email displayed or with at
\* least one warning or error shown and no email displayed; none ends silently.
C10_NeverSilent ==
    GenerateActionEnded =>
        \/ written # <<>>
        \/ (messages # <<>> /\ written = <<>>)

====
